---- MODULE Spec2Model ----
(***************************************************************************)
(* Tempesta DB burst hash trie (src/htrie/htrie.c, src/htrie/htrie.h).     *)
(*                                                                         *)
(* The state is the memory of one database mapping: the root index node,   *)
(* the buckets, the per-CPU allocation cursors, free-bucket queues and     *)
(* observed generations, and for every CPU the position and the locals of  *)
(* the call it is executing.  References are kept in the encoded form the  *)
(* code stores (a 32-bit slot value = data bit + offset index, a byte      *)
(* offset for pointers) and col_map is kept as the set of the bit indices  *)
(* that are set in the 64-bit word, so that every conversion and every     *)
(* bit operation is computed the way the C code computes it.               *)
(***************************************************************************)
EXTENDS Integers, Sequences, FiniteSets, TLC

(***************************************************************************)
(* Bounds of the model.                                                    *)
(***************************************************************************)
\* calls the environment starts, and one more for the deep specification
MaxOps == 3
DeepOps == MaxOps + 1
\* slots of a bucket that can be claimed after the first
BcktCap == 1

CPUs == {1, 2}
NCpu == Cardinality(CPUs)
Keys == {1, 17}
Lens == {0, 1}
\* the walk callbacks: the sets of keys for whose records fn returns non-zero
Fns == {{}, {17}}

(***************************************************************************)
(* Program constants.                                                      *)
(***************************************************************************)
BITS_PER_LONG == 64
L1_CACHE_BYTES == 64
TDB_HTRIE_BITS == 4
TDB_BLK_SZ == 4096
LONG_MAX == 2147483647
root_bits == 4

TDB_HTRIE_NODE_SZ == L1_CACHE_BYTES
TDB_HTRIE_MINDREC == L1_CACHE_BYTES * 2
TDB_HTRIE_FANOUT == 2 ^ TDB_HTRIE_BITS
TDB_HTRIE_KMASK == TDB_HTRIE_FANOUT - 1
TDB_HTRIE_COLL_MAX == BITS_PER_LONG - 1
TDB_HTRIE_BURST_MIN_BITS == TDB_HTRIE_COLL_MAX - BcktCap
TDB_HTRIE_BCKT_SLOTS_N == TDB_HTRIE_COLL_MAX - TDB_HTRIE_BURST_MIN_BITS

TDB_O2DI(o) == o \div TDB_HTRIE_MINDREC
TDB_O2II(o) == o \div TDB_HTRIE_NODE_SZ
TDB_DI2O(i) == i * TDB_HTRIE_MINDREC
TDB_II2O(i) == i * TDB_HTRIE_NODE_SZ
\* TDB_I2O is used by tdb_htrie_descend for bucket and for index references
\* alike; its definition is not part of htrie.h.
TDB_I2O(i) == i * TDB_HTRIE_MINDREC
TDB_HTRIE_RESOLVED(b) == b + TDB_HTRIE_BITS > BITS_PER_LONG
TDB_HTRIE_IDX(k, b) == (k \div (2 ^ b)) % TDB_HTRIE_FANOUT

(***************************************************************************)
(* Words.  A 64-bit col_map is the set of its set bit indices; an integer  *)
(* used as a mask is the set of the bit indices of its binary form.        *)
(***************************************************************************)
Bits == 0..(BITS_PER_LONG - 1)
MaskOf(n) == {i \in 0..30 : (n \div (2 ^ i)) % 2 = 1}
\* x & n != 0, for a word x and an integer n
AndNonZero(x, n) == x \cap MaskOf(n) # {}
\* find last (most significant) zero bit: bsr of the complement
flz(x) == CHOOSE b \in Bits : b \notin x /\ \A h \in Bits : h > b => h \in x
\* TDB_HTRIE_SLOT2BIT(s): the word with the bit of index s set
TDB_HTRIE_SLOT2BIT(s) == {s}

\* A 32-bit index slot: the data bit (bit 31) and the 31-bit offset index.
Slot(d, n) == [dbit |-> d, off |-> n]
ZeroSlot == Slot(FALSE, 0)
\* the value an unsigned long below 2^31 has when stored into / compared
\* with a 32-bit slot
Int32(n) == Slot(FALSE, n)

tdb_htrie_bckt_burst_threshold(bit) == bit < TDB_HTRIE_BURST_MIN_BITS
__htrie_bckt_bit2slot(bit) == TDB_HTRIE_COLL_MAX - bit
__htrie_bckt_slot2bit(slot) == TDB_HTRIE_COLL_MAX - slot

(***************************************************************************)
(* Memory layout.  tdb_init_mapping gives every CPU one block for index    *)
(* nodes, one for buckets and one for data; the allocator hands out        *)
(* consecutive objects of a block and rolls the last one back.             *)
(***************************************************************************)
BcktStride == TDB_HTRIE_MINDREC
DataStride == TDB_HTRIE_MINDREC
BcktBlk(c) == TDB_BLK_SZ * c
DataBlk(c) == TDB_BLK_SZ * (NCpu + c)
IdxBlk(c) == TDB_BLK_SZ * (2 * NCpu + c)
BcktOffs == {BcktBlk(c) + BcktStride * i : c \in CPUs, i \in 0..MaxOps}
SlotIds == 0..(TDB_HTRIE_COLL_MAX - TDB_HTRIE_BURST_MIN_BITS)
DataOffs == {DataBlk(c) + DataStride * i : c \in CPUs, i \in 0..MaxOps}
ZeroChunk == [chunk_next |-> 0, len |-> 0]
ZeroRec == [key |-> 0, off |-> 0]
ZeroBckt == [col_map |-> {}, next |-> 0, recs |-> [s \in SlotIds |-> ZeroRec]]
\* address of slot s of bucket b (inplace records live in the bucket)
__htrie_bckt_rec(b, s) == b + 16 + s

VARIABLES
    hdr,            \* the arguments and the outcome of tdb_htrie_init
    inplace,        \* dbh->flags & TDB_F_INPLACE
    generation,     \* dbh->generation
    shifts,         \* the root node: shifts[i], i < 2^root_bits
    bckt,           \* bucket memory by byte offset
    pcpu,           \* per-CPU state: generation, cursors, free-bucket queue
    cpu,            \* per-CPU call: position and locals
    ops,            \* calls the environment may still start
    onFreeQ,        \* history: buckets put on a free queue and not taken off
    stored,         \* history: number of completed stores per key
    rmCalled,       \* history: keys a remove was called for
    walked,         \* result of the last tdb_htrie_walk: fn's arguments
    chunks          \* data memory by byte offset: the TdbVRec chunk headers

vars == <<hdr, inplace, generation, shifts, bckt, pcpu, cpu, ops, onFreeQ, stored,
          rmCalled, walked, chunks>>

Idle == [pc |-> "idle", op |-> "none", key |-> 0, len |-> 0, bits |-> 0,
         o |-> 0, rec |-> 0, b |-> 0, slot |-> 0, b_free |-> 0, b_new |-> 0,
         g |-> 0, map |-> {}, new_map |-> {}, in |-> << >>, idx |-> 0,
         ret |-> "none", full |-> FALSE, linked |-> FALSE, had |-> FALSE,
         cnt |-> 0, nomem |-> FALSE, empty |-> FALSE,
         in_burst |-> FALSE, in_remove |-> FALSE, chunk |-> 0]

InitMem ==
    /\ inplace \in BOOLEAN
    /\ generation = 0
    /\ shifts = [i \in 0..(2 ^ root_bits - 1) |-> ZeroSlot]
    /\ bckt = [b \in BcktOffs |-> ZeroBckt]
    /\ pcpu = [c \in CPUs |-> [generation |-> LONG_MAX,
                               i_wcl |-> IdxBlk(c), b_wcl |-> BcktBlk(c),
                               d_wcl |-> DataBlk(c),
                               free_bckt_h |-> 0, free_bckt_t |-> 0]]
    /\ cpu = [c \in CPUs |-> Idle]
    /\ onFreeQ = {}
    /\ stored = [k \in Keys |-> 0]
    /\ rmCalled = {}
    /\ walked = [done |-> FALSE, fn |-> << >>, res |-> 0, bad |-> {},
                 hit |-> FALSE, quiet |-> FALSE, live |-> 0,
                 stored |-> [k \in Keys |-> 0], removes |-> FALSE]
    /\ chunks = [o \in DataOffs |-> ZeroChunk]

\* the header of a mapping that tdb_htrie_init initialised with root_bits
Mapped(inpl) ==
    [magic |-> FALSE, db_size |-> 3 * NCpu + 1,
     root_bits |-> root_bits, rec_len |-> IF inpl THEN 1 ELSE 0,
     inplace |-> inpl, res |-> "dbh", wmagic |-> TRUE, nomem |-> FALSE,
     again |-> "none"]

Init == InitMem /\ ops = MaxOps /\ hdr = Mapped(inplace)
InitDeep == InitMem /\ ops = DeepOps /\ hdr = Mapped(inplace)

(***************************************************************************)
(* tdb_htrie_init and tdb_init_mapping as a function of the arguments.     *)
(***************************************************************************)
\* the comment in tdb_init_mapping: one shard is a 128GB chunk.  Sizes of
\* a mapping (db_size) are counted in blocks of TDB_BLK_SZ bytes.
TDB_MAX_SHARD_SZ == 128 * 2 ^ 18
RootBitsIn == 0..(4 * TDB_HTRIE_BITS + 1)
RecLensIn == {0, 1, TDB_BLK_SZ \div 2, TDB_BLK_SZ \div 2 + 1}
DbSizesIn == {3 * NCpu + 1, TDB_MAX_SHARD_SZ, TDB_MAX_SHARD_SZ + 1}

\* (root_bits & ~TDB_HTRIE_BITS) || (root_bits < TDB_HTRIE_BITS)
root_bits_bad(rb) ==
    MaskOf(rb) \ MaskOf(TDB_HTRIE_BITS) # {} \/ rb < TDB_HTRIE_BITS

\* tdb_htrie_bckt_sz of a header with the given rec_len and inplace flag
bckt_sz_of(rec_len, inpl) ==
    16 + (TDB_HTRIE_COLL_MAX - TDB_HTRIE_BURST_MIN_BITS)
         * (16 + rec_len * (IF inpl THEN 1 ELSE 0))

\* tdb_init_mapping: the header record after the call; nomem is whether
\* alloc_percpu fails
tdb_init_mapping(h, nomem) ==
    IF h.db_size > TDB_MAX_SHARD_SZ THEN [h EXCEPT !.res = "NULL"]
    ELSE IF h.rec_len > TDB_BLK_SZ \div 2 THEN [h EXCEPT !.res = "NULL"]
    ELSE IF root_bits_bad(h.root_bits) THEN [h EXCEPT !.res = "NULL"]
    ELSE IF h.inplace /\ (h.rec_len = 0
                           \/ bckt_sz_of(h.rec_len, h.inplace) > TDB_BLK_SZ)
    THEN [h EXCEPT !.res = "NULL", !.wmagic = TRUE]
    ELSE IF nomem THEN [h EXCEPT !.res = "NULL", !.wmagic = TRUE, !.nomem = TRUE]
    ELSE [h EXCEPT !.res = "dbh", !.wmagic = TRUE]

\* h.wmagic is whether the mapping holds TDB_MAGIC when the call is made
tdb_htrie_init(h, nomem) ==
    IF h.wmagic THEN [h EXCEPT !.res = "dbh"] ELSE tdb_init_mapping(h, nomem)

\* the arguments of a call of tdb_htrie_init that has not run yet
InitArgs ==
    /\ InitMem
    /\ ops = 0
    /\ hdr \in [magic : BOOLEAN, db_size : DbSizesIn, root_bits : RootBitsIn,
                 rec_len : RecLensIn, inplace : {inplace}, res : {"none"},
                 wmagic : BOOLEAN, nomem : {FALSE}, again : {"none"}]
    /\ hdr.wmagic = hdr.magic

TdbHtrieInit ==
    /\ hdr.res = "none"
    /\ \E nomem \in BOOLEAN : hdr' = tdb_htrie_init(hdr, nomem)
    /\ UNCHANGED <<chunks, inplace, generation, shifts, bckt, pcpu, cpu, ops, onFreeQ,
                   stored, rmCalled, walked>>

\* tdb_htrie_init is called once more on the same mapping with the same
\* arguments; again is what this call returns
TdbHtrieInitAgain ==
    /\ hdr.res # "none"
    /\ hdr.again = "none"
    /\ \E nomem \in BOOLEAN :
         LET r == tdb_htrie_init(hdr, nomem)
         IN  hdr' = [hdr EXCEPT !.again = r.res, !.wmagic = r.wmagic]
    /\ UNCHANGED <<chunks, inplace, generation, shifts, bckt, pcpu, cpu, ops, onFreeQ,
                   stored, rmCalled, walked>>

NextInit ==
    \/ TdbHtrieInit
    \/ TdbHtrieInitAgain
SpecInit == InitArgs /\ [][NextInit]_vars

(***************************************************************************)
(* Helpers shared by the calls.                                            *)
(***************************************************************************)
\* tdb_htrie_free_generation: the CPU stops observing (declares the maximum)
tdb_htrie_free_generation(p) == [p EXCEPT !.generation = LONG_MAX]

\* tdb_htrie_observe_generation, second half: publish the value read
tdb_htrie_observe_generation(p, g) == [p EXCEPT !.generation = g]

\* an initialisation that sets every bit of the map
init_bucket_full(b) == [b EXCEPT !.col_map = Bits, !.next = 0]

tdb_htrie_init_bucket(b) == [b EXCEPT !.col_map = {}, !.next = 0]

\* tdb_htrie_alloc_bucket: [b |-> the bucket, p |-> the CPU's state after,
\* mem |-> bucket memory after]
tdb_htrie_alloc_bucket(p, mem) ==
    LET b == IF p.free_bckt_h # 0 THEN p.free_bckt_h ELSE p.b_wcl
    IN  [b |-> b,
         p |-> IF p.free_bckt_h # 0
               THEN [p EXCEPT !.free_bckt_h = mem[b].next,
                              !.free_bckt_t = IF mem[b].next = 0 THEN 0 ELSE @]
               ELSE [p EXCEPT !.b_wcl = @ + BcktStride],
         mem |-> [mem EXCEPT ![b] = tdb_htrie_init_bucket(@)]]

tdb_htrie_rollback_bucket(p) == [p EXCEPT !.b_wcl = @ - BcktStride]

\* tdb_htrie_reclaim_bucket: [p |-> the CPU's state, mem |-> bucket memory]
tdb_htrie_reclaim_bucket(p, mem, b) ==
    IF p.free_bckt_t # 0
    THEN [p |-> [p EXCEPT !.free_bckt_t = b],
          mem |-> [mem EXCEPT ![p.free_bckt_t].next = b]]
    ELSE [p |-> [p EXCEPT !.free_bckt_h = b, !.free_bckt_t = b], mem |-> mem]

\* tdb_htrie_create_rec in inplace mode asserts that the slot's key is zero
create_rec_bug(mem, b, slot) == inplace /\ mem[b].recs[slot].key # 0

\* __htrie_bckt_write_metadata: the slot after the write
__htrie_bckt_write_metadata(key, rec) ==
    IF inplace THEN [key |-> key, off |-> 0] ELSE [key |-> key, off |-> rec]

\* the record pointer __htrie_bckt_write_metadata leaves in *rec
write_metadata_rec(b, slot, rec) ==
    IF inplace THEN __htrie_bckt_rec(b, slot) ELSE rec

\* the locals a call leaves behind when it returns; an insert that linked
\* its record leaves the bucket, the slot and the record
Returned(l, ret) ==
    [Idle EXCEPT !.op = l.op, !.key = l.key, !.full = l.full, !.linked = l.linked,
                 !.had = l.had, !.cnt = l.cnt, !.nomem = l.nomem,
                 !.empty = l.empty, !.ret = ret,
                 !.in_burst = l.in_burst, !.in_remove = l.in_remove,
                 !.b = IF l.linked THEN l.b ELSE 0,
                 !.slot = IF l.linked THEN l.slot ELSE 0,
                 !.rec = IF l.linked THEN l.rec ELSE 0]
Bugged(l) == [l EXCEPT !.pc = "bug"]

\* an exit that leaves the observed generation published
insert_err_keeps_guard(p) == p

\* the exit at label err of tdb_htrie_insert
insert_err(p) == tdb_htrie_free_generation(p)
\* the successful exit of tdb_htrie_insert
insert_ok(p) == tdb_htrie_free_generation(p)
\* the exit of tdb_htrie_lookup when the key is not in the index
lookup_miss(p) == tdb_htrie_free_generation(p)

(***************************************************************************)
(* tdb_htrie_insert                                                        *)
(***************************************************************************)
\* a length check that lets every length through
empty_data_never(len) == FALSE

\* if (unlikely(!*len)) return NULL;
empty_data(len) == len = 0

InsertCall(c, k, len) ==
    /\ cpu[c].pc = "idle"
    /\ ops > 0
    /\ ops' = ops - 1
    /\ cpu' = [cpu EXCEPT ![c] =
                 IF empty_data(len)
                 THEN [Idle EXCEPT !.op = "insert", !.ret = "NULL",
                                   !.empty = TRUE]
                 ELSE [Idle EXCEPT !.pc = "ins_alloc", !.op = "insert",
                                   !.key = k, !.len = len, !.g = generation,
                                   !.empty = (len = 0)]]
    /\ UNCHANGED <<chunks, hdr, inplace, generation, shifts, bckt, pcpu, onFreeQ, stored,
                   rmCalled, walked>>

InsertAlloc(c) ==
    /\ cpu[c].pc = "ins_alloc"
    /\ LET l == cpu[c]
           p == tdb_htrie_observe_generation(pcpu[c], l.g)
       IN  IF inplace
           THEN /\ pcpu' = [pcpu EXCEPT ![c] = p]
                /\ cpu' = [cpu EXCEPT ![c] = [l EXCEPT !.pc = "desc"]]
           ELSE \E nomem \in BOOLEAN :
                  IF nomem
                  THEN /\ pcpu' = [pcpu EXCEPT ![c] = insert_err(p)]
                       /\ cpu' = [cpu EXCEPT ![c] =
                            Returned([l EXCEPT !.nomem = TRUE], "NULL")]
                  ELSE /\ pcpu' = [pcpu EXCEPT ![c] =
                                     [p EXCEPT !.d_wcl = @ + DataStride]]
                       /\ cpu' = [cpu EXCEPT ![c] =
                                    [l EXCEPT !.pc = "desc", !.rec = p.d_wcl]]
    /\ UNCHANGED <<chunks, hdr, inplace, generation, shifts, bckt, ops, onFreeQ, stored,
                   rmCalled, walked>>

(***************************************************************************)
(* tdb_htrie_descend.  Only the root is an index node of the state: an     *)
(* index reference in a slot makes descend read the node at                *)
(* TDB_I2O(reference), which is no node the allocator handed out.          *)
(***************************************************************************)
\* the position after descend returned o to the call of kind op
AfterDescend(op, o) ==
    CASE op = "insert" -> IF o = 0 THEN "ins_new" ELSE "ins_flz"
      [] op = "lookup" -> IF o = 0 THEN "idle" ELSE "held"
      [] OTHER -> IF o = 0 THEN "rm_free" ELSE "rm_copy"

\* a step of the descent that consumes more than the whole key
descend_bits_wide(bits) == bits + 2 * BITS_PER_LONG

\* *bits += TDB_HTRIE_BITS
descend_bits(bits) == bits + TDB_HTRIE_BITS

tdb_htrie_descend(l) ==
    LET o == shifts[l.key % (2 ^ root_bits)]
    IN  IF l.bits > 0 THEN Bugged(l)
        ELSE IF o.dbit
        THEN [l EXCEPT !.bits = descend_bits(@), !.o = TDB_I2O(o.off),
                       !.pc = AfterDescend(l.op, TDB_I2O(o.off))]
        ELSE IF o.off = 0
        THEN [l EXCEPT !.o = 0, !.pc = AfterDescend(l.op, 0)]
        ELSE [l EXCEPT !.bits = descend_bits(@), !.pc = "wild"]

Descend(c) ==
    /\ cpu[c].pc = "desc"
    /\ LET n == tdb_htrie_descend(cpu[c])
       IN  IF n.pc = "idle"
           THEN /\ cpu' = [cpu EXCEPT ![c] = Returned(n, "NULL")]
                /\ pcpu' = [pcpu EXCEPT ![c] = lookup_miss(@)]
           ELSE /\ cpu' = [cpu EXCEPT ![c] =
                             IF n.pc = "held" THEN [n EXCEPT !.b = n.o] ELSE n]
                /\ pcpu' = pcpu
    /\ UNCHANGED <<chunks, hdr, inplace, generation, shifts, bckt, ops, onFreeQ, stored,
                   rmCalled, walked>>

(***************************************************************************)
(* __htrie_insert_new_bckt and the loop of tdb_htrie_insert around it      *)
(***************************************************************************)
\* a compare-and-swap that stores whatever the slot holds
new_bckt_cas_any(v) == TRUE

\* atomic_cmpxchg(&node->shifts[i], 0, b_link) == 0
new_bckt_cas_ok(v) == v = Int32(0)

\* a link to bucket b without the data bit
bckt_link_untagged(b) == Slot(FALSE, TDB_O2DI(b))

\* b_link = TDB_O2DI(TDB_OFF(dbh, b)) | TDB_HTRIE_DBIT
bckt_link(b) == Slot(TRUE, TDB_O2DI(b))

InsertNewBckt(c) ==
    /\ cpu[c].pc = "ins_new"
    /\ LET l == cpu[c]
           a == tdb_htrie_alloc_bucket(pcpu[c], bckt)
           b0 == a.mem[a.b]
           rec == write_metadata_rec(a.b, 0, l.rec)
           b1 == [b0 EXCEPT !.recs[0] = __htrie_bckt_write_metadata(l.key, rec),
                            !.col_map = TDB_HTRIE_SLOT2BIT(TDB_HTRIE_COLL_MAX)]
           b_link == bckt_link(a.b)
           i == TDB_HTRIE_IDX(l.key, l.bits)
       IN  IF create_rec_bug(bckt, a.b, 0)
           THEN /\ cpu' = [cpu EXCEPT ![c] = Bugged(l)]
                /\ pcpu' = [pcpu EXCEPT ![c] = a.p]
                /\ bckt' = [bckt EXCEPT ![a.b] = b0]
                /\ UNCHANGED <<shifts, stored>>
           ELSE IF new_bckt_cas_ok(shifts[i])
           THEN /\ shifts' = [shifts EXCEPT ![i] = b_link]
                /\ bckt' = [bckt EXCEPT ![a.b] = b1]
                /\ pcpu' = [pcpu EXCEPT ![c] = insert_err(a.p)]
                /\ cpu' = [cpu EXCEPT ![c] =
                             Returned([l EXCEPT !.rec = rec, !.b = a.b,
                                                !.linked = TRUE], "NULL")]
                /\ stored' = [stored EXCEPT ![l.key] = @ + 1]
           ELSE /\ bckt' = [bckt EXCEPT ![a.b] = b1]
                /\ pcpu' = [pcpu EXCEPT ![c] = tdb_htrie_rollback_bucket(a.p)]
                /\ cpu' = [cpu EXCEPT ![c] = [l EXCEPT !.pc = "desc", !.rec = rec]]
                /\ UNCHANGED <<shifts, stored>>
    /\ onFreeQ' = onFreeQ \ {tdb_htrie_alloc_bucket(pcpu[c], bckt).b}
    /\ UNCHANGED <<chunks, hdr, inplace, generation, ops, rmCalled, walked>>

(***************************************************************************)
(* tdb_htrie_insert into an existing bucket: __htrie_bckt_insert_new_rec   *)
(* and __htrie_bckt_acquire_empty_slot                                     *)
(***************************************************************************)
InsertFlz(c) ==
    /\ cpu[c].pc = "ins_flz"
    /\ LET l == cpu[c]
           b_free == flz(bckt[l.o].col_map)
       IN  cpu' = [cpu EXCEPT ![c] =
                     IF tdb_htrie_bckt_burst_threshold(b_free)
                     THEN [l EXCEPT !.pc = "ins_full", !.b = l.o,
                                    !.b_free = b_free]
                     ELSE [l EXCEPT !.pc = "bckt_write", !.b = l.o,
                                    !.b_free = b_free,
                                    !.slot = __htrie_bckt_bit2slot(b_free)]]
    /\ UNCHANGED <<chunks, hdr, inplace, generation, shifts, bckt, pcpu, ops, onFreeQ,
                   stored, rmCalled, walked>>

BcktWrite(c) ==
    /\ cpu[c].pc = "bckt_write"
    /\ LET l == cpu[c]
           rec == write_metadata_rec(l.b, l.slot, l.rec)
       IN  IF create_rec_bug(bckt, l.b, l.slot)
           THEN /\ cpu' = [cpu EXCEPT ![c] = Bugged(l)]
                /\ bckt' = bckt
           ELSE /\ cpu' = [cpu EXCEPT ![c] =
                             [l EXCEPT !.pc = "acq_read", !.rec = rec]]
                /\ bckt' = [bckt EXCEPT ![l.b].recs[l.slot] =
                              __htrie_bckt_write_metadata(l.key, rec)]
    /\ UNCHANGED <<chunks, hdr, inplace, generation, shifts, pcpu, ops, onFreeQ, stored,
                   rmCalled, walked>>

AcqRead(c) ==
    /\ cpu[c].pc = "acq_read"
    /\ LET l == cpu[c]
           b_free == flz(bckt[l.b].col_map)
       IN  cpu' = [cpu EXCEPT ![c] =
                     IF tdb_htrie_bckt_burst_threshold(b_free)
                     THEN [l EXCEPT !.pc = "ins_full", !.b_free = b_free]
                     ELSE [l EXCEPT !.pc = "acq_tas", !.b_free = b_free]]
    /\ UNCHANGED <<chunks, hdr, inplace, generation, shifts, bckt, pcpu, ops, onFreeQ,
                   stored, rmCalled, walked>>

\* another CPU is inside the burst of bucket b: between the snapshot of
\* col_map and the end of the insert that bursts
BurstRuns(c, b) ==
    \E d \in CPUs \ {c} : /\ cpu[d].op = "insert" /\ cpu[d].full /\ cpu[d].b = b
                           /\ cpu[d].pc \in {"burst_cas", "desc"}
\* another CPU is inside tdb_htrie_remove, past its copy of bucket b
RemoveRuns(c, b) ==
    \E d \in CPUs \ {c} : /\ cpu[d].op = "remove" /\ cpu[d].b = b
                           /\ cpu[d].pc \in {"rm_cas", "desc", "rm_sync"}

\* the position of __htrie_bckt_insert_new_rec after it acquired slot s
after_acquire(l, s) ==
    IF l.slot = s THEN [l EXCEPT !.pc = "bckt_fix"]
    ELSE [l EXCEPT !.pc = "bckt_write", !.slot = s]

AcqTas(c) ==
    /\ cpu[c].pc = "acq_tas"
    /\ LET l == cpu[c]
       IN  IF l.b_free \in bckt[l.b].col_map
           THEN /\ cpu' = [cpu EXCEPT ![c] = [l EXCEPT !.pc = "acq_read"]]
                /\ bckt' = bckt
           ELSE /\ bckt' = [bckt EXCEPT ![l.b].col_map = @ \cup {l.b_free}]
                /\ cpu' = [cpu EXCEPT ![c] =
                             after_acquire(
                                 [l EXCEPT !.in_remove = RemoveRuns(c, l.b)],
                                 __htrie_bckt_bit2slot(l.b_free))]
    /\ UNCHANGED <<chunks, hdr, inplace, generation, shifts, pcpu, ops, onFreeQ, stored,
                   rmCalled, walked>>

BcktFix(c) ==
    /\ cpu[c].pc = "bckt_fix"
    /\ LET l == [cpu[c] EXCEPT !.in_burst = BurstRuns(c, cpu[c].b)]
           rec == write_metadata_rec(l.b, l.slot, l.rec)
       IN  IF create_rec_bug(bckt, l.b, l.slot)
           THEN /\ cpu' = [cpu EXCEPT ![c] = Bugged(l)]
                /\ UNCHANGED <<bckt, pcpu, stored>>
           ELSE /\ bckt' = [bckt EXCEPT ![l.b].recs[l.slot] =
                              __htrie_bckt_write_metadata(l.key, rec)]
                /\ pcpu' = [pcpu EXCEPT ![c] = insert_ok(@)]
                /\ cpu' = [cpu EXCEPT ![c] =
                             Returned([l EXCEPT !.rec = rec, !.linked = TRUE],
                                      "rec")]
                /\ stored' = [stored EXCEPT ![l.key] = @ + 1]
    /\ UNCHANGED <<chunks, hdr, inplace, generation, shifts, ops, onFreeQ, rmCalled, walked>>

(***************************************************************************)
(* tdb_htrie_bckt_burst                                                    *)
(***************************************************************************)
\* sizeof(TdbHtrieBucket) plus the slots (tdb_htrie_bckt_sz)
tdb_htrie_bckt_sz == 16 + TDB_HTRIE_BCKT_SLOTS_N * (16 + (IF inplace THEN 1 ELSE 0))
\* sizeof(TdbVRec)
tdb_htrie_rollback_data(p) == [p EXCEPT !.d_wcl = @ - (8 + tdb_htrie_bckt_sz)]
tdb_htrie_rollback_index(p) == [p EXCEPT !.i_wcl = @ - TDB_HTRIE_NODE_SZ]

\* __htrie_bckt_copy_metadata on bucket memory m: the bucket after, or the
\* assertion that fired.  "col_map |= bit" ors the bit's index into the word.
__htrie_bckt_copy_metadata(m, r) ==
    LET bit == flz(m.col_map)
        slot == __htrie_bckt_bit2slot(bit)
    IN  IF tdb_htrie_bckt_burst_threshold(bit) \/ (inplace /\ m.recs[slot].key # 0)
        THEN [bug |-> TRUE, m |-> m]
        ELSE [bug |-> FALSE,
              m |-> [m EXCEPT !.col_map = @ \cup MaskOf(bit), !.recs[slot] = r]]

\* One slot s of the loop of __htrie_bckt_move_records over bucket b.  st is
\* [in, new_map, mem, p, taken, err]: the new index node, the map collected
\* for b, bucket memory, the CPU's state, the buckets taken off the free
\* queue and the error ("" while there is none).
move_one(st, s, b, map, bits) ==
    LET bit == __htrie_bckt_slot2bit(s)
        r == st.mem[b].recs[s]
        i == TDB_HTRIE_IDX(r.key, bits)
        a == tdb_htrie_alloc_bucket(st.p, st.mem)
        b_old == TDB_II2O(st.in[i].off)
        cpn == __htrie_bckt_copy_metadata(a.mem[a.b], r)
        cpo == __htrie_bckt_copy_metadata(st.mem[b_old], r)
    IN  IF st.err # "" \/ ~AndNonZero(map, bit) THEN st
        ELSE IF st.in[i] = ZeroSlot
        THEN IF st.new_map = {}
             THEN [st EXCEPT !.new_map = @ \cup MaskOf(bit),
                             !.in[i] = Slot(TRUE, TDB_O2DI(b))]
             ELSE [st EXCEPT !.p = a.p, !.taken = @ \cup {a.b},
                             !.mem[a.b] = cpn.m,
                             !.in[i] = Slot(TRUE, TDB_O2DI(a.b)),
                             !.err = IF cpn.bug THEN "bug" ELSE ""]
        ELSE IF b_old = b
        THEN [st EXCEPT !.new_map = @ \cup MaskOf(bit)]
        ELSE IF b_old \notin BcktOffs
        THEN [st EXCEPT !.err = "wild"]
        ELSE [st EXCEPT !.mem[b_old] = cpo.m,
                        !.err = IF cpo.bug THEN "bug" ELSE ""]

RECURSIVE __htrie_bckt_move_records(_, _, _, _, _)
__htrie_bckt_move_records(st, s, b, map, bits) ==
    IF s >= TDB_HTRIE_BCKT_SLOTS_N THEN st
    ELSE __htrie_bckt_move_records(move_one(st, s, b, map, bits), s + 1, b,
                                   map, bits)

\* what the memory at TDB_II2O(o) may hold when the burst reads it as its
\* new index node: it is not the node tdb_htrie_alloc_index zeroed
WildNode(x) ==
    [i \in 0..(TDB_HTRIE_FANOUT - 1) |->
        IF i = 0 /\ x # 0 THEN Slot(FALSE, TDB_O2II(x)) ELSE ZeroSlot]
LinkedBckts ==
    {TDB_DI2O(shifts[i].off) : i \in {j \in DOMAIN shifts : shifts[j].dbit}}

\* tdb_htrie_insert from "the bucket is full" to the parent CAS of the burst
InsertFull(c) ==
    /\ cpu[c].pc = "ins_full"
    /\ LET l == cpu[c]
           p0 == [pcpu[c] EXCEPT !.i_wcl = @ + TDB_HTRIE_NODE_SZ]
           map == bckt[l.b].col_map
       IN  IF TDB_HTRIE_RESOLVED(l.bits)
           THEN /\ pcpu' = [pcpu EXCEPT ![c] =
                    insert_err(IF inplace THEN @ ELSE tdb_htrie_rollback_data(@))]
                /\ cpu' = [cpu EXCEPT ![c] =
                             Returned([l EXCEPT !.full = TRUE], "NULL")]
                /\ UNCHANGED <<bckt, onFreeQ>>
           ELSE IF l.bits < TDB_HTRIE_BITS
           THEN /\ cpu' = [cpu EXCEPT ![c] = Bugged(l)]
                /\ UNCHANGED <<bckt, pcpu, onFreeQ>>
           ELSE \E nomem \in BOOLEAN :
                  IF nomem
                  THEN \* tdb_htrie_alloc_index returned 0: -ENOMEM
                       /\ pcpu' = [pcpu EXCEPT ![c] = insert_err(
                             IF inplace THEN @ ELSE tdb_htrie_rollback_data(@))]
                       /\ cpu' = [cpu EXCEPT ![c] =
                             Returned([l EXCEPT !.full = TRUE, !.nomem = TRUE],
                                      "NULL")]
                       /\ UNCHANGED <<bckt, onFreeQ>>
                  ELSE \E x \in {0} \cup LinkedBckts :
                         LET st == __htrie_bckt_move_records(
                                       [in |-> WildNode(x), new_map |-> {},
                                        mem |-> bckt, p |-> p0, taken |-> {},
                                        err |-> ""], 0, l.b, map, l.bits)
                         IN  /\ pcpu' = [pcpu EXCEPT ![c] = st.p]
                             /\ bckt' = st.mem
                             /\ onFreeQ' = onFreeQ \ st.taken
                             /\ cpu' = [cpu EXCEPT ![c] =
                                  [l EXCEPT !.pc = IF st.err = "" THEN "burst_cas"
                                                   ELSE st.err,
                                            !.full = TRUE,
                                            !.idx = pcpu[c].i_wcl,
                                            !.map = map, !.in = st.in,
                                            !.new_map = st.new_map]]
    /\ UNCHANGED <<chunks, hdr, inplace, generation, shifts, ops, stored, rmCalled, walked>>

\* atomic_cmpxchg(&(*node)->shifts[i], old_off, o) != old_off fails
burst_cas_ok(v, old_off) == v = Int32(old_off)

\* err_free_mem: reclaim every bucket the new index node references
RECURSIVE err_free_mem(_, _, _)
err_free_mem(st, in, i) ==
    IF i >= TDB_HTRIE_FANOUT THEN st
    ELSE IF in[i] = ZeroSlot THEN err_free_mem(st, in, i + 1)
    ELSE LET b == TDB_II2O(in[i].off)
             r == tdb_htrie_reclaim_bucket(st.p, st.mem, b)
         IN  err_free_mem([p |-> r.p, mem |-> r.mem, freed |-> st.freed \cup {b}],
                          in, i + 1)

BurstCas(c) ==
    /\ cpu[c].pc = "burst_cas"
    /\ LET l == cpu[c]
           i == TDB_HTRIE_IDX(l.key, l.bits - TDB_HTRIE_BITS)
           curr == bckt[l.b].col_map
           \* the col_map loop: a map that changed since it was read is
           \* redistributed once more, then the swap goes through
           delta == (curr \ l.map) \cup (l.map \ curr)
           st2 == IF curr = l.map
                  THEN [in |-> l.in, new_map |-> l.new_map, mem |-> bckt,
                        p |-> pcpu[c], taken |-> {}, err |-> ""]
                  ELSE __htrie_bckt_move_records(
                           [in |-> l.in, new_map |-> l.new_map, mem |-> bckt,
                            p |-> pcpu[c], taken |-> {}, err |-> ""],
                           0, l.b, delta, l.bits)
           fr == err_free_mem([p |-> pcpu[c], mem |-> bckt, freed |-> {}],
                              l.in, 0)
       IN  IF burst_cas_ok(shifts[i], l.o)
           THEN /\ shifts' = [shifts EXCEPT ![i] = Int32(l.idx)]
                /\ bckt' = [st2.mem EXCEPT ![l.b].col_map = st2.new_map]
                /\ onFreeQ' = onFreeQ \ st2.taken
                /\ IF st2.new_map = curr
                      /\ ~TDB_HTRIE_RESOLVED(l.bits + TDB_HTRIE_BITS)
                   THEN /\ pcpu' = [pcpu EXCEPT ![c] = st2.p]
                        /\ cpu' = [cpu EXCEPT ![c] = [l EXCEPT !.pc = "wild"]]
                   ELSE /\ pcpu' = [pcpu EXCEPT ![c] = insert_err(
                              IF inplace THEN st2.p
                              ELSE tdb_htrie_rollback_data(st2.p))]
                        /\ cpu' = [cpu EXCEPT ![c] = Returned(l, "NULL")]
           ELSE /\ shifts' = shifts
                /\ bckt' = fr.mem
                /\ onFreeQ' = onFreeQ \cup fr.freed
                /\ pcpu' = [pcpu EXCEPT ![c] = tdb_htrie_rollback_index(fr.p)]
                /\ cpu' = [cpu EXCEPT ![c] =
                             [l EXCEPT !.pc = "desc", !.in = << >>, !.map = {},
                                       !.new_map = {}, !.idx = 0]]
    /\ UNCHANGED <<chunks, hdr, inplace, generation, ops, stored, rmCalled, walked>>

(***************************************************************************)
(* tdb_htrie_lookup, tdb_htrie_bscan_for_rec and the caller's release      *)
(***************************************************************************)
LookupCall(c, k) ==
    /\ cpu[c].pc = "idle"
    /\ ops > 0
    /\ ops' = ops - 1
    /\ cpu' = [cpu EXCEPT ![c] =
                 [Idle EXCEPT !.pc = "lk_observe", !.op = "lookup", !.key = k,
                              !.g = generation,
                              !.had = stored[k] > 0 /\ k \notin rmCalled]]
    /\ UNCHANGED <<chunks, hdr, inplace, generation, shifts, bckt, pcpu, onFreeQ, stored,
                   rmCalled, walked>>

LookupObserve(c) ==
    /\ cpu[c].pc = "lk_observe"
    /\ pcpu' = [pcpu EXCEPT ![c] = tdb_htrie_observe_generation(@, cpu[c].g)]
    /\ cpu' = [cpu EXCEPT ![c].pc = "desc"]
    /\ UNCHANGED <<chunks, hdr, inplace, generation, shifts, bckt, ops, onFreeQ, stored,
                   rmCalled, walked>>

\* the caller is done with the bucket tdb_htrie_lookup returned
Release(c) ==
    /\ cpu[c].pc = "held"
    /\ pcpu' = [pcpu EXCEPT ![c] = tdb_htrie_free_generation(@)]
    /\ cpu' = [cpu EXCEPT ![c] = Returned([cpu[c] EXCEPT !.op = "release"], "b")]
    /\ UNCHANGED <<chunks, hdr, inplace, generation, shifts, bckt, ops, onFreeQ, stored,
                   rmCalled, walked>>

\* tdb_htrie_bscan_for_rec(dbh, b, key, &i): [rec |-> the record returned
\* (0 is NULL), i |-> *i after the call]
RECURSIVE tdb_htrie_bscan_for_rec(_, _, _)
tdb_htrie_bscan_for_rec(b, key, i) ==
    IF i >= TDB_HTRIE_BCKT_SLOTS_N THEN [rec |-> 0, i |-> i]
    ELSE IF ~AndNonZero(bckt[b].col_map, __htrie_bckt_slot2bit(i))
    THEN tdb_htrie_bscan_for_rec(b, key, i + 1)
    ELSE IF bckt[b].recs[i].key = key
    THEN [rec |-> IF inplace THEN __htrie_bckt_rec(b, i)
                  ELSE bckt[b].recs[i].off, i |-> i]
    ELSE tdb_htrie_bscan_for_rec(b, key, i + 1)

\* the slots a caller gets who scans bucket b for key from i on, incrementing
\* the index between the calls, until the scan returns NULL
RECURSIVE ScanFrom(_, _, _)
ScanFrom(b, key, i) ==
    LET r == tdb_htrie_bscan_for_rec(b, key, i)
    IN  IF r.rec = 0 THEN << >> ELSE <<r.i>> \o ScanFrom(b, key, r.i + 1)

(***************************************************************************)
(* tdb_htrie_remove                                                        *)
(***************************************************************************)
RemoveCall(c, k) ==
    /\ cpu[c].pc = "idle"
    /\ ops > 0
    /\ ops' = ops - 1
    /\ LET a == tdb_htrie_alloc_bucket(pcpu[c], bckt)
       IN  /\ pcpu' = [pcpu EXCEPT ![c] = a.p]
           /\ bckt' = a.mem
           /\ onFreeQ' = onFreeQ \ {a.b}
           /\ cpu' = [cpu EXCEPT ![c] =
                        [Idle EXCEPT !.pc = "desc", !.op = "remove", !.key = k,
                                     !.b_new = a.b,
                                     !.had = stored[k] > 0,
                                     !.cnt = stored[k]]]
    /\ rmCalled' = rmCalled \cup {k}
    /\ UNCHANGED <<chunks, hdr, inplace, generation, shifts, stored, walked>>

\* the loop of tdb_htrie_remove over the slots s.. of bucket b: the memory
\* after, or the assertion of __htrie_bckt_copy_metadata that fired
RECURSIVE remove_copy(_, _, _, _, _)
remove_copy(st, s, b, b_new, key) ==
    LET r == st.mem[b].recs[s]
        cp == __htrie_bckt_copy_metadata(st.mem[b_new], r)
    IN  IF s >= TDB_HTRIE_BCKT_SLOTS_N \/ st.bug THEN st
        ELSE IF ~AndNonZero(st.mem[b].col_map, __htrie_bckt_slot2bit(s))
        THEN remove_copy(st, s + 1, b, b_new, key)
        ELSE IF r.key # key
        THEN remove_copy([st EXCEPT !.mem[b_new] = cp.m, !.bug = cp.bug],
                         s + 1, b, b_new, key)
        ELSE remove_copy([st EXCEPT !.dr = @ \cup {s}], s + 1, b, b_new, key)

RemoveCopy(c) ==
    /\ cpu[c].pc = "rm_copy"
    /\ LET l == cpu[c]
           st == remove_copy([mem |-> bckt, dr |-> {}, bug |-> FALSE], 0, l.o,
                             l.b_new, l.key)
       IN  /\ bckt' = st.mem
           /\ cpu' = [cpu EXCEPT ![c] =
                        IF st.bug THEN Bugged(l)
                        ELSE [l EXCEPT !.pc = "rm_cas", !.b = l.o,
                                       !.map = st.dr]]
    /\ UNCHANGED <<chunks, hdr, inplace, generation, shifts, pcpu, ops, onFreeQ, stored,
                   rmCalled, walked>>

\* a compare that takes the slot's data bit and units off before comparing
remove_cas_untagged(v, o) == v.dbit /\ TDB_I2O(v.off) = o

\* atomic_cmpxchg(&node->shifts[i], o, new_off) != o fails
remove_cas_ok(v, o) == v = Int32(o)

RemoveCas(c) ==
    /\ cpu[c].pc = "rm_cas"
    /\ LET l == cpu[c]
           i == TDB_HTRIE_IDX(l.key, l.bits - TDB_HTRIE_BITS)
       IN  IF remove_cas_ok(shifts[i], l.o)
           THEN \* the new bucket is published and the generation incremented
                /\ shifts' = [shifts EXCEPT ![i] = Int32(l.b_new)]
                /\ generation' = generation + 1
                /\ cpu' = [cpu EXCEPT ![c] =
                             [l EXCEPT !.pc = "rm_sync", !.g = generation + 1]]
                /\ bckt' = bckt
           ELSE /\ bckt' = [bckt EXCEPT ![l.b_new] = tdb_htrie_init_bucket(@)]
                /\ cpu' = [cpu EXCEPT ![c] = [l EXCEPT !.pc = "desc"]]
                /\ UNCHANGED <<shifts, generation>>
    /\ UNCHANGED <<chunks, hdr, inplace, pcpu, ops, onFreeQ, stored, rmCalled, walked>>

\* tdb_htrie_synchronize_generation stops waiting
synchronized(gen) == \A c \in CPUs : ~(pcpu[c].generation <= gen)

\* the end of tdb_htrie_remove: either the key was not in the index and the
\* new bucket is reclaimed (err_free), or all CPUs observed the change and
\* the old bucket is
RemoveReclaim(c) ==
    /\ IF cpu[c].pc = "rm_sync" THEN synchronized(cpu[c].g)
       ELSE cpu[c].pc = "rm_free"
    /\ LET l == cpu[c]
           b == IF l.pc = "rm_free" THEN l.b_new ELSE l.b
           r == tdb_htrie_reclaim_bucket(pcpu[c], bckt, b)
       IN  /\ pcpu' = [pcpu EXCEPT ![c] = r.p]
           /\ bckt' = r.mem
           /\ onFreeQ' = onFreeQ \cup {b}
           /\ cpu' = [cpu EXCEPT ![c] = Returned(l, "void")]
    /\ UNCHANGED <<chunks, hdr, inplace, generation, shifts, ops, stored, rmCalled, walked>>

(***************************************************************************)
(* tdb_htrie_walk                                                          *)
(***************************************************************************)
\* fn is given by the set of the keys for whose records it returns 1; for
\* the others it returns 0
FnRes(bad, key) == IF key \in bad THEN 1 ELSE 0

\* tdb_htrie_bucket_walk from slot i on: [fn |-> fn's arguments, in order,
\* res |-> the value returned]
RECURSIVE tdb_htrie_bucket_walk(_, _, _)
tdb_htrie_bucket_walk(b, i, bad) ==
    IF i >= TDB_HTRIE_BCKT_SLOTS_N THEN [fn |-> << >>, res |-> 0]
    ELSE IF ~AndNonZero(bckt[b].col_map, __htrie_bckt_slot2bit(i))
    THEN tdb_htrie_bucket_walk(b, i + 1, bad)
    ELSE LET r == [b |-> b, slot |-> i, key |-> bckt[b].recs[i].key,
                   off |-> bckt[b].recs[i].off]
             rest == tdb_htrie_bucket_walk(b, i + 1, bad)
         IN  IF FnRes(bad, r.key) # 0
             THEN [fn |-> <<r>>, res |-> FnRes(bad, r.key)]
             ELSE [rest EXCEPT !.fn = <<r>> \o @]

\* tdb_htrie_node_visit of the root from slot i on; a slot without the data
\* bit sends the visit to a node that is not part of the state
RECURSIVE tdb_htrie_node_visit(_, _)
tdb_htrie_node_visit(i, bad) ==
    IF i >= 2 ^ root_bits THEN [fn |-> << >>, wild |-> FALSE, res |-> 0]
    ELSE LET o == shifts[i]
             rest == tdb_htrie_node_visit(i + 1, bad)
             w == tdb_htrie_bucket_walk(TDB_DI2O(o.off), 0, bad)
         IN  IF o = ZeroSlot THEN rest
             ELSE IF o.dbit
             THEN IF w.res # 0
                  THEN [fn |-> w.fn, wild |-> FALSE, res |-> w.res]
                  ELSE [rest EXCEPT !.fn = w.fn \o @]
             ELSE [rest EXCEPT !.wild = TRUE]

\* the occupied slots of the buckets the index references
LinkedRecs ==
    {[b |-> b, slot |-> s, key |-> bckt[b].recs[s].key,
      off |-> bckt[b].recs[s].off] :
        <<b, s>> \in {x \in LinkedBckts \X SlotIds :
                         __htrie_bckt_slot2bit(x[2]) \in bckt[x[1]].col_map}}

Quiet == \A c \in CPUs : cpu[c].pc = "idle"

Walk(c, bad) ==
    /\ cpu[c].pc = "idle"
    /\ ops > 0
    /\ ops' = ops - 1
    /\ LET v == tdb_htrie_node_visit(0, bad)
       IN  /\ walked' = [done |-> TRUE, fn |-> v.fn, res |-> v.res,
                         bad |-> bad,
                         hit |-> \E r \in LinkedRecs : FnRes(bad, r.key) # 0,
                         quiet |-> Quiet, live |-> Cardinality(LinkedRecs),
                         stored |-> stored, removes |-> rmCalled # {}]
           /\ cpu' = [cpu EXCEPT ![c] =
                        [Idle EXCEPT !.op = "walk",
                                     !.ret = IF v.res = 0 THEN "0" ELSE "1"]]
    /\ UNCHANGED <<chunks, hdr, inplace, generation, shifts, bckt, pcpu, onFreeQ, stored,
                   rmCalled>>

Next ==
    \/ \E c \in CPUs, k \in Keys, len \in Lens : InsertCall(c, k, len)
    \/ \E c \in CPUs : InsertAlloc(c)
    \/ \E c \in CPUs : Descend(c)
    \/ \E c \in CPUs : InsertNewBckt(c)
    \/ \E c \in CPUs : InsertFlz(c)
    \/ \E c \in CPUs : BcktWrite(c)
    \/ \E c \in CPUs : AcqRead(c)
    \/ \E c \in CPUs : AcqTas(c)
    \/ \E c \in CPUs : BcktFix(c)
    \/ \E c \in CPUs : InsertFull(c)
    \/ \E c \in CPUs : BurstCas(c)
    \/ \E c \in CPUs, k \in Keys : LookupCall(c, k)
    \/ \E c \in CPUs : LookupObserve(c)
    \/ \E c \in CPUs : Release(c)
    \/ \E c \in CPUs, k \in Keys : RemoveCall(c, k)
    \/ \E c \in CPUs : RemoveCopy(c)
    \/ \E c \in CPUs : RemoveCas(c)
    \/ \E c \in CPUs : RemoveReclaim(c)

\* the calls that change the trie, and the lookups
Spec == Init /\ [][Next]_vars
\* the same program with one more call
SpecDeep == InitDeep /\ [][Next]_vars

\* the same program with walks among the calls
NextWalk ==
    \/ Next
    \/ \E c \in CPUs, bad \in Fns : Walk(c, bad)
SpecWalk == Init /\ [][NextWalk]_vars

(***************************************************************************)
(* tdb_htrie_synchronize_generation against read sections.  The writer is  *)
(* taken from the point where tdb_htrie_remove calls it; the read sections *)
(* are lookups, which the CPUs may start without end.                      *)
(***************************************************************************)
\* calls of tdb_htrie_synchronize_generation in one behaviour
MaxSyncs == NCpu

InitSync == InitMem /\ ops = 0 /\ hdr = Mapped(inplace)

\* tdb_htrie_lookup is called: the global generation is read
ReadCall(c, k) ==
    /\ cpu[c].pc = "idle"
    /\ cpu' = [cpu EXCEPT ![c] =
                 [Idle EXCEPT !.pc = "lk_observe", !.op = "lookup", !.key = k,
                              !.g = generation]]
    /\ UNCHANGED <<chunks, hdr, inplace, generation, shifts, bckt, pcpu, ops, onFreeQ,
                   stored, rmCalled, walked>>

\* gen = atomic64_inc_return(&dbh->generation)
SyncCall(c) ==
    /\ cpu[c].pc = "idle"
    /\ generation < MaxSyncs
    /\ generation' = generation + 1
    /\ cpu' = [cpu EXCEPT ![c] =
                 [Idle EXCEPT !.pc = "sync_scan", !.op = "remove",
                              !.g = generation + 1, !.idx = 1]]
    /\ UNCHANGED <<chunks, hdr, inplace, shifts, bckt, pcpu, ops, onFreeQ, stored,
                   rmCalled, walked>>

\* whether the scan of for_each_online_cpu stops at this CPU's generation
not_synchronized(pgen, gen) == pgen <= gen

\* one iteration of for_each_online_cpu: the CPU idx is read; a generation
\* that is not higher than gen starts the scan over
SyncScan(c) ==
    /\ cpu[c].pc = "sync_scan"
    /\ LET l == cpu[c]
       IN  cpu' = [cpu EXCEPT ![c] =
                     IF not_synchronized(pcpu[l.idx].generation, l.g)
                     THEN [l EXCEPT !.idx = 1]
                     ELSE IF l.idx = NCpu THEN Returned(l, "void")
                     ELSE [l EXCEPT !.idx = @ + 1]]
    /\ UNCHANGED <<chunks, hdr, inplace, generation, shifts, bckt, pcpu, ops, onFreeQ,
                   stored, rmCalled, walked>>

NextSync ==
    \/ \E c \in CPUs, k \in Keys : ReadCall(c, k)
    \/ \E c \in CPUs : LookupObserve(c)
    \/ \E c \in CPUs : Descend(c)
    \/ \E c \in CPUs : SyncCall(c)
    \/ \E c \in CPUs : SyncScan(c)

\* every CPU that runs keeps running: a read section that was started ends,
\* and the writer's scan goes on; nothing obliges a CPU to start a call
FairSync ==
    \A c \in CPUs : /\ WF_vars(LookupObserve(c))
                     /\ WF_vars(Descend(c))
                     /\ WF_vars(SyncScan(c))
SpecSync == InitSync /\ [][NextSync]_vars /\ FairSync

(***************************************************************************)
(* tdb_htrie_extend_rec on one variable-length record.  The record is the  *)
(* chunk tdb_htrie_insert allocated and tdb_htrie_create_rec set up on     *)
(* CPU 1; the index plays no part in the calls.                            *)
(***************************************************************************)
TDB_HTRIE_VARLENRECS(h) == h.rec_len = 0
\* the record the callers pass as @rec
ExtRec == DataBlk(1)
\* the sizes the callers ask for
ExtSizes == {1, 2}

InitExt ==
    /\ inplace = FALSE
    /\ hdr = Mapped(FALSE)
    /\ generation = 0
    /\ shifts = [i \in 0..(2 ^ root_bits - 1) |-> ZeroSlot]
    /\ bckt = [b \in BcktOffs |-> ZeroBckt]
    /\ pcpu = [c \in CPUs |-> [generation |-> LONG_MAX,
                               i_wcl |-> IdxBlk(c), b_wcl |-> BcktBlk(c),
                               d_wcl |-> IF DataBlk(c) = ExtRec
                                         THEN ExtRec + DataStride
                                         ELSE DataBlk(c),
                               free_bckt_h |-> 0, free_bckt_t |-> 0]]
    /\ cpu = [c \in CPUs |-> Idle]
    /\ ops = MaxOps
    /\ onFreeQ = {}
    /\ stored = [k \in Keys |-> 0]
    /\ rmCalled = {}
    /\ walked = [done |-> FALSE, fn |-> << >>, res |-> 0, bad |-> {},
                 hit |-> FALSE, quiet |-> FALSE, live |-> 0,
                 stored |-> [k \in Keys |-> 0], removes |-> FALSE]
    /\ chunks = [o \in DataOffs |->
                   IF o = ExtRec THEN [chunk_next |-> 0, len |-> 1]
                   ELSE ZeroChunk]

\* tdb_htrie_extend_rec up to the label retry: the chunk is allocated and
\* initialised
ExtendCall(c, size) ==
    /\ cpu[c].pc = "idle"
    /\ ops > 0
    /\ ops' = ops - 1
    /\ \E nomem \in BOOLEAN :
         IF ~TDB_HTRIE_VARLENRECS(hdr)
         THEN /\ cpu' = [cpu EXCEPT ![c] = Bugged([Idle EXCEPT !.op = "extend"])]
              /\ UNCHANGED <<pcpu, chunks>>
         ELSE IF nomem
         THEN /\ cpu' = [cpu EXCEPT ![c] =
                   Returned([Idle EXCEPT !.op = "extend", !.nomem = TRUE],
                            "NULL")]
              /\ UNCHANGED <<pcpu, chunks>>
         ELSE LET o == pcpu[c].d_wcl
              IN  /\ pcpu' = [pcpu EXCEPT ![c].d_wcl = @ + DataStride]
                  /\ chunks' = [chunks EXCEPT
                                  ![o] = [chunk_next |-> 0, len |-> size]]
                  /\ cpu' = [cpu EXCEPT ![c] =
                        [Idle EXCEPT !.pc = "ext_walk", !.op = "extend",
                                     !.len = size, !.o = o, !.chunk = o,
                                     !.rec = ExtRec]]
    /\ UNCHANGED <<hdr, inplace, generation, shifts, bckt, onFreeQ, stored,
                   rmCalled, walked>>

\* one test of while (rec->chunk_next); when the loop ends, o = TDB_O2DI(o)
ExtWalk(c) ==
    /\ cpu[c].pc = "ext_walk"
    /\ LET l == cpu[c]
           n == chunks[l.rec].chunk_next
       IN  cpu' = [cpu EXCEPT ![c] =
                     IF n = 0
                     THEN [l EXCEPT !.pc = "ext_cas", !.o = TDB_O2DI(l.o)]
                     ELSE IF TDB_DI2O(n) \in DataOffs
                     THEN [l EXCEPT !.rec = TDB_DI2O(n)]
                     \* the reference leads out of the chunks
                     ELSE [l EXCEPT !.rec = TDB_DI2O(n), !.pc = "wild"]]
    /\ UNCHANGED <<chunks, hdr, inplace, generation, shifts, bckt, pcpu, ops,
                   onFreeQ, stored, rmCalled, walked>>

\* atomic_cmpxchg(&rec->chunk_next, 0, o): a non-zero old value is a retry
ExtCas(c) ==
    /\ cpu[c].pc = "ext_cas"
    /\ LET l == cpu[c]
       IN  IF chunks[l.rec].chunk_next = 0
           THEN /\ chunks' = [chunks EXCEPT ![l.rec].chunk_next = l.o]
                /\ cpu' = [cpu EXCEPT ![c] =
                             [Returned(l, "chunk") EXCEPT !.chunk = l.chunk]]
           ELSE /\ chunks' = chunks
                /\ cpu' = [cpu EXCEPT ![c] = [l EXCEPT !.pc = "ext_walk"]]
    /\ UNCHANGED <<hdr, inplace, generation, shifts, bckt, pcpu, ops, onFreeQ,
                   stored, rmCalled, walked>>

NextExt ==
    \/ \E c \in CPUs, size \in ExtSizes : ExtendCall(c, size)
    \/ \E c \in CPUs : ExtWalk(c)
    \/ \E c \in CPUs : ExtCas(c)

SpecExt == InitExt /\ [][NextExt]_vars

(***************************************************************************)
(* Properties.                                                             *)
(***************************************************************************)
\* what a caller gets who looks key k up and scans the bucket from slot 0
LookupScan(k) ==
    LET o == shifts[k % (2 ^ root_bits)]
    IN  IF o.dbit
        THEN [b |-> TDB_I2O(o.off), slots |-> ScanFrom(TDB_I2O(o.off), k, 0)]
        ELSE [b |-> 0, slots |-> << >>]
Found(k) == LookupScan(k).slots # << >>
\* the occupied slots of linked buckets whose key is not k
KeptRecs(k) == {r \in LinkedRecs : r.key # k}
\* a call that came to its end: it returned or hit an assertion
Ended(c) == cpu[c].pc \in {"idle", "bug"}
InsertsOf(k) == {c \in CPUs : cpu[c].op = "insert" /\ cpu[c].key = k
                              /\ cpu[c].pc # "idle"}

\* C1: a lookup of a key that was stored before the call and that no remove
\* was called for returns a bucket, and the scan of that bucket for the key
\* returns a record.
C1_LookupFindsStored ==
    \A c \in CPUs :
        (cpu[c].op = "lookup" /\ cpu[c].had /\ cpu[c].key \notin rmCalled
         /\ cpu[c].pc \in {"held", "idle"})
        => (cpu[c].pc = "held"
            /\ tdb_htrie_bscan_for_rec(cpu[c].b, cpu[c].key, 0).rec # 0)

\* C2: an insert that returned has returned NULL exactly when it did not
\* link its record into the trie.
C2_NullOnlyWhenNotStored ==
    \A c \in CPUs :
        (cpu[c].op = "insert" /\ cpu[c].pc = "idle")
        => ((cpu[c].ret = "NULL") <=> ~cpu[c].linked)

\* C3: an insert that found its bucket full and was not out of memory comes
\* to its end by returning, with its key found by lookup and scan.
C3_FullBucketInsertStores ==
    \A c \in CPUs :
        (cpu[c].op = "insert" /\ cpu[c].full /\ ~cpu[c].nomem /\ Ended(c))
        => (cpu[c].pc = "idle" /\ Found(cpu[c].key))

\* C4: when a remove of a stored key has come to its end and no insert of the
\* key ran since it was called, no linked bucket holds a record with the key.
C4_RemovedKeyGone ==
    \A c \in CPUs :
        (cpu[c].op = "remove" /\ cpu[c].had /\ Ended(c)
         /\ stored[cpu[c].key] = cpu[c].cnt /\ InsertsOf(cpu[c].key) = {})
        => \A r \in LinkedRecs : r.key # cpu[c].key

C7_GuardReleased ==
    \A c \in CPUs :
        /\ (cpu[c].pc = "idle" /\ cpu[c].op \in {"insert", "lookup"})
           => pcpu[c].generation = LONG_MAX
        /\ cpu[c].pc = "held"
           => (pcpu[c].generation = cpu[c].g /\ pcpu[c].generation < LONG_MAX)

\* an insert returned after linking a fresh bucket while another CPU holds
\* the bucket of a lookup
C7_Witness ==
    \E c, d \in CPUs :
        /\ cpu[c].op = "insert" /\ cpu[c].pc = "idle" /\ cpu[c].linked
        /\ cpu[d].pc = "held"

\* C8: a walk of a trie into which only inserts of distinct keys ran, all of
\* them completed, calls fn once per stored key.
C8_WalkCountsInserts ==
    (walked.done /\ walked.quiet /\ ~walked.removes
     /\ \A k \in Keys : walked.stored[k] <= 1)
    => Len(walked.fn) = Cardinality({k \in Keys : walked.stored[k] = 1})

\* C9: a walk calls fn exactly once for each occupied slot of the linked
\* buckets.
C9_WalkVisitsEachLiveOnce ==
    (walked.done /\ walked.quiet)
    => /\ Len(walked.fn) = walked.live
       /\ \A i, j \in 1..Len(walked.fn) :
             walked.fn[i] = walked.fn[j] => i = j

\* C10: with no remove and no other call running, the repeated scan of the
\* bucket a lookup of key K returned yields as many records as there are
\* completed inserts of K.
C10_ScanReturnsDuplicates ==
    \A c \in CPUs :
        (cpu[c].pc = "held" /\ rmCalled = {}
         /\ \A d \in CPUs \ {c} : cpu[d].pc = "idle" /\ ~cpu[d].full)
        => Len(ScanFrom(cpu[c].b, cpu[c].key, 0)) = stored[cpu[c].key]

\* C11: the step in which tdb_htrie_insert is called with *len = 0 returns
\* NULL and changes neither the index, nor a bucket, nor the allocation
\* cursors, the free-bucket queues and the observed generation of any CPU,
\* nor the global generation.
C11_EmptyInsertChangesNothing ==
    [][\A c \in CPUs :
          (ops' # ops /\ cpu[c].pc = "idle" /\ cpu'[c].op = "insert"
           /\ cpu'[c].empty /\ \A d \in CPUs \ {c} : cpu'[d] = cpu[d])
          => /\ cpu'[c].pc = "idle" /\ cpu'[c].ret = "NULL"
             /\ UNCHANGED <<shifts, bckt, pcpu, generation, onFreeQ, stored>>]_vars

\* an insert without data returned while the trie holds a record and another
\* CPU is inside a call
C11_Witness ==
    \E c, d \in CPUs :
        /\ cpu[c].op = "insert" /\ cpu[c].empty /\ cpu[c].pc = "idle"
        /\ cpu[c].ret = "NULL"
        /\ LinkedRecs # {} /\ cpu[d].pc \notin {"idle", "bug"}

C13_RootBitsMultipleOf4 ==
    (hdr.res # "none" /\ ~hdr.magic /\ ~hdr.nomem
     /\ hdr.db_size <= TDB_MAX_SHARD_SZ /\ hdr.rec_len <= TDB_BLK_SZ \div 2
     /\ (hdr.inplace => hdr.rec_len # 0))
    => (hdr.res = "dbh"
        <=> (hdr.root_bits >= 4 /\ hdr.root_bits % 4 = 0))

\* C14: a walk with no other call running returns non-zero when fn returns
\* non-zero for a record of the trie, the last call of fn is then the one
\* that returned non-zero and no call before it did; when fn returns 0 for
\* every record the walk returns 0.
C14_WalkStopsAtNonZero ==
    (walked.done /\ walked.quiet)
    => /\ walked.hit
          => /\ walked.res # 0
             /\ walked.fn # << >>
             /\ FnRes(walked.bad, walked.fn[Len(walked.fn)].key) # 0
       /\ \A j \in 1..(Len(walked.fn) - 1) :
             FnRes(walked.bad, walked.fn[j].key) = 0
       /\ ~walked.hit => walked.res = 0

\* the byte offsets of the blocks tdb_init_mapping gave the CPUs for index
\* nodes
IsIdxNode(o) == \E c \in CPUs : IdxBlk(c) <= o /\ o < IdxBlk(c) + TDB_BLK_SZ
\* a slot value without the data bit that is the offset of an index node,
\* counted in bytes or in index nodes
IdxRef(v) == ~v.dbit /\ (IsIdxNode(v.off) \/ IsIdxNode(TDB_II2O(v.off)))

InitedBckts ==
    LinkedBckts \cup {cpu[c].b_new : c \in {d \in CPUs : /\ cpu[d].op = "remove"
                                                          /\ cpu[d].pc # "idle"}}

SlotsOf(q) == {q[j] : j \in DOMAIN q}

\* C18: while an insert bursts bucket b (from the redistribution of the
\* records to the end of the burst), a reader that holds b finds by its scan
\* every record b holds.
C18_ReaderFindsRecordsDuringBurst ==
    \A c, d \in CPUs :
        (cpu[c].pc = "held" /\ cpu[d].op = "insert" /\ cpu[d].full
         /\ cpu[d].b = cpu[c].b /\ cpu[d].pc \in {"burst_cas", "desc", "bug"})
        => \A r \in LinkedRecs :
              r.b = cpu[c].b
              => r.slot \in SlotsOf(ScanFrom(cpu[c].b, r.key, 0))

Claimed(c) ==
    /\ cpu[c].op = "insert"
    /\ cpu[c].pc = "bckt_fix" \/ (cpu[c].pc = "idle" /\ cpu[c].linked)

\* C20: while no remove was called, the slot whose col_map bit an insert
\* claimed has its bit set and holds the key and the data reference of that
\* insert.
C20_SlotHoldsClaimersRecord ==
    \A c \in CPUs :
        (Claimed(c) /\ rmCalled = {})
        => /\ __htrie_bckt_slot2bit(cpu[c].slot) \in bckt[cpu[c].b].col_map
           /\ bckt[cpu[c].b].recs[cpu[c].slot]
                = __htrie_bckt_write_metadata(cpu[c].key, cpu[c].rec)

C22_SyncReturns ==
    \A c \in CPUs : (cpu[c].pc = "sync_scan") ~> (cpu[c].pc = "idle")

RECURSIVE ExtChain(_, _)
ExtChain(o, n) ==
    IF o \notin DataOffs \/ n = 0 THEN <<o>>
    ELSE IF chunks[o].chunk_next = 0 THEN <<o>>
    ELSE <<o>> \o ExtChain(TDB_DI2O(chunks[o].chunk_next), n - 1)

\* C24: once every tdb_htrie_extend_rec call on the record has returned, the
\* chain from the record holds the original chunk and every chunk a call
\* set up, each exactly once.
C24_ChainHoldsEveryChunk ==
    (\A c \in CPUs : cpu[c].pc = "idle")
        => LET ch == ExtChain(ExtRec, Cardinality(DataOffs))
           IN  /\ {ch[i] : i \in DOMAIN ch}
                    = {o \in DataOffs : chunks[o].len > 0}
               /\ \A i, j \in DOMAIN ch : ch[i] = ch[j] => i = j

\* C25: every call of tdb_htrie_descend is made with bits = 0, the restarts
\* of tdb_htrie_insert and tdb_htrie_remove included.
C25_DescendFromBitsZero ==
    \A c \in CPUs : cpu[c].pc = "desc" => cpu[c].bits = 0

C27_CreateRecOnZeroKey ==
    \A c \in CPUs :
        cpu[c].pc \in {"bckt_write", "bckt_fix"}
            => ~create_rec_bug(bckt, cpu[c].b, cpu[c].slot)

\* C28: when a call of tdb_htrie_init on a mapping without the magic was
\* refused for its arguments, the next call on the same mapping with the
\* same arguments is refused as well.
C28_RejectedStaysRejected ==
    (hdr.again # "none" /\ ~hdr.magic /\ hdr.res = "NULL" /\ ~hdr.nomem)
    => hdr.again = "NULL"

====
